---------------------------- MODULE Spec2Model ----------------------------
(***************************************************************************)
(* Model of src/src/energyflow/archs/archbase.py: the NNBase architecture  *)
(* wrapper (hyperparameter processing, mode dispatch, attribute lookup)    *)
(* and the DeMixer output layer (to_vertices, perimeterLoss, call).        *)
(*                                                                         *)
(* Numbers are exact rationals <<numerator, denominator>>; floating-point  *)
(* rounding is not modelled.  exp is the power of the integer ExpBase, so  *)
(* that softmax stays rational; a square root is kept as a symbolic term   *)
(* over its radicand.                                                      *)
(***************************************************************************)
EXTENDS Integers, Sequences, FiniteSets, Bags, TLC

\* ------------------------------------------------------------------ bounds
MaxDim == 2          \* largest output_dim / number_cat a caller passes
MaxSteps == 1        \* optimizer steps in one fit
MaxCalls == 2        \* forward invocations of the DeMixer over the run
RecursionLimit == 8  \* nested Python frames before RecursionError
RawVals == {0, 1}    \* entries a raw_fractions matrix takes (those of K.eye)

\* --------------------------------------------------------------- constants
ExpBase == 2         \* the base of the exponential of K.softmax, made integral
DefaultOutputDim == 2

\* ------------------------------------------------------- exact arithmetic
RECURSIVE GCD(_, _)
GCD(a, b) == IF b = 0 THEN a ELSE GCD(b, a % b)

Abs(n) == IF n < 0 THEN -n ELSE n

Rat(n, d) ==
    LET g == GCD(Abs(n), Abs(d))
        s == IF d < 0 THEN -1 ELSE 1
    IN  <<s * (n \div g), s * (d \div g)>>

RZero == <<0, 1>>
ROne == <<1, 1>>
RAdd(x, y) ==
    LET g == GCD(x[2], y[2])
        l == (x[2] \div g) * y[2]
    IN  Rat(x[1] * (l \div x[2]) + y[1] * (l \div y[2]), l)
RNeg(x) == <<-x[1], x[2]>>
RSub(x, y) == RAdd(x, RNeg(y))
RMul(x, y) ==
    LET a == Rat(x[1], y[2])
        b == Rat(y[1], x[2])
    IN  Rat(a[1] * b[1], a[2] * b[2])
NaN == <<0, 0>>
RDiv(x, y) == IF y[1] = 0 \/ y = NaN \/ x = NaN THEN NaN
              ELSE RMul(x, Rat(y[2], y[1]))
RAbs(x) == <<Abs(x[1]), x[2]>>
RPos(x) == x # NaN /\ x[1] > 0
RNonNeg(x) == x # NaN /\ x[1] >= 0

RECURSIVE RSum(_)
RSum(s) == IF Len(s) = 0 THEN RZero ELSE RAdd(Head(s), RSum(Tail(s)))

RECURSIVE Pow(_, _)
Pow(b, n) == IF n = 0 THEN 1 ELSE b * Pow(b, n - 1)

\* K.exp on an integer argument, as a rational
Exp(x) == IF x >= 0 THEN <<Pow(ExpBase, x), 1>> ELSE <<1, Pow(ExpBase, -x)>>

\* ------------------------------------------------------------ tensor ops
\* the function f over 1..n as a tuple (a tensor is a tuple of tuples)
Tensor(f, n) == SubSeq(f, 1, n)

Rows(m) == Len(m)
Cols(m) == IF Len(m) = 0 THEN 0 ELSE Len(m[1])
Matrices(r, c) == [1..r -> [1..c -> RawVals]]

\* K.eye(n)
Eye(n) == Tensor([i \in 1..n |-> Tensor([j \in 1..n |-> IF i = j THEN 1 ELSE 0], n)], n)
\* m[:, :c]
SliceCols(m, c) ==
    LET w == IF c < Cols(m) THEN c ELSE Cols(m)
    IN  Tensor([i \in 1..Rows(m) |-> Tensor([j \in 1..w |-> m[i][j]], w)], Rows(m))

\* K.softmax(raw, axis=1)
Softmax(raw) ==
    Tensor([i \in 1..Rows(raw) |->
        LET e == Tensor([j \in 1..Cols(raw) |-> Exp(raw[i][j])], Cols(raw))
            s == RSum(e)
        IN  Tensor([j \in 1..Cols(raw) |-> RDiv(e[j], s)], Cols(raw))], Rows(raw))

\* K.transpose
Transpose(m) ==
    Tensor([j \in 1..Cols(m) |-> Tensor([i \in 1..Rows(m) |-> m[i][j]], Rows(m))],
           Cols(m))

\* K.sum(raw_vertices, axis=1): the divisor of every vertex row
Denominator(raw_vertices) ==
    Tensor([j \in 1..Rows(raw_vertices) |-> RSum(raw_vertices[j])],
           Rows(raw_vertices))

to_vertices_unnormalised(raw_fractions) == Transpose(Softmax(raw_fractions))

to_vertices(raw_fractions) ==
    LET fractions == Softmax(raw_fractions)
        raw_vertices == Transpose(fractions)
        denominator == Denominator(raw_vertices)
    IN  Tensor([j \in 1..Rows(raw_vertices) |->
                Tensor([k \in 1..Cols(raw_vertices) |->
                           RDiv(raw_vertices[j][k], denominator[j])],
                       Cols(raw_vertices))],
               Rows(raw_vertices))

\* K.dot(barycentric, vertices) for one example
Dot(barycentric, vertices) ==
    Tensor([k \in 1..Cols(vertices) |->
               RSum(Tensor([j \in 1..Rows(vertices) |->
                               RMul(barycentric[j], vertices[j][k])],
                           Rows(vertices)))],
           Cols(vertices))

\* --------------------------------------------------------- perimeterLoss
Eps == <<1, 1000000000>>

Range(s) == {s[k] : k \in DOMAIN s}
BagOfSeq(s) == [e \in Range(s) |-> Cardinality({k \in DOMAIN s : s[k] = e})]

\* K.sum(K.square(x), axis=-1): a sum of squares, kept as the bag of the
\* magnitudes squared (a zero entry adds nothing to the sum)
SumSquares(x) ==
    LET nz == SelectSeq(x, LAMBDA e : e[1] # 0)
    IN  BagOfSeq(Tensor([k \in 1..Len(nz) |-> RAbs(nz[k])], Len(nz)))

\* K.sqrt(squares + 1e-9), kept as a term over its radicand
Sqrt(squares, eps) == [squares |-> squares, plus |-> eps]

\* K.expand_dims(v, axis=0) and K.expand_dims(v, axis=1)
ExpandDims0(v) == <<v>>
ExpandDims1(v) == Tensor([i \in 1..Rows(v) |-> <<v[i]>>], Rows(v))

PwsDistances(vertices) ==
    LET A == ExpandDims0(vertices)
        B == ExpandDims1(vertices)
        n == Rows(vertices)
    IN  Tensor([i \in 1..n |-> Tensor([j \in 1..n |->
            Sqrt(SumSquares(Tensor([k \in 1..Cols(vertices) |->
                                       RSub(A[1][j][k], B[i][1][k])],
                                   Cols(vertices))), Eps)], n)], n)

\* K.sum over every entry of a square matrix of terms, as a bag of terms
SumAll(m) ==
    LET idx == (1..Rows(m)) \X (1..Rows(m))
        terms == {m[p[1]][p[2]] : p \in idx}
    IN  [t \in terms |-> Cardinality({p \in idx : m[p[1]][p[2]] = t})]

\* a mutant: the sum runs over the pairs i < j only
perimeterLoss_upper(raw_fractions) ==
    LET vertices == to_vertices(raw_fractions)
        d == PwsDistances(vertices)
        idx == {p \in (1..Rows(d)) \X (1..Rows(d)) : p[1] < p[2]}
        terms == {d[p[1]][p[2]] : p \in idx}
    IN  [coef |-> <<1, 2>>,
         sum |-> [t \in terms |-> Cardinality({p \in idx : d[p[1]][p[2]] = t})]]

\* perimeterLoss: coef * (the sum of the terms of the bag)
perimeterLoss(raw_fractions) ==
    LET vertices == to_vertices(raw_fractions)
        pws_distances == PwsDistances(vertices)
    IN  [coef |-> <<1, 2>>, sum |-> SumAll(pws_distances)]

\* ------------------------------------------------------------- strings
\* A Python str is a sequence of one-character strings.
LowerChar(c) ==
    CASE c = "D" -> "d" [] c = "E" -> "e" [] c = "M" -> "m" [] c = "I" -> "i"
      [] c = "X" -> "x" [] c = "P" -> "p" [] c = "L" -> "l" [] c = "A" -> "a"
      [] c = "N" -> "n" [] OTHER -> c
\* str.lower()
Lower(s) == Tensor([k \in 1..Len(s) |-> LowerChar(s[k])], Len(s))

demix == <<"d", "e", "m", "i", "x">>
plain == <<"p", "l", "a", "i", "n">>
allowed_modes == {demix, plain}
\* sorted(allowed_modes)
SortedAllowed == <<demix, plain>>

ModeInputs ==
    { demix, plain, <<"D", "e", "M", "I", "X">>, <<"P", "l", "a", "i", "n">>,
      <<"m", "i", "x">>, <<"P", "l", "a", "n", "e">>, <<>> }

\* ------------------------------------------------------------ the object
VARIABLES
    args,    \* the hyperparameters the caller passed (never changed)
    hps,     \* self.hps: the hyperparameters not yet popped
    phase,   \* how far ArchBase.__init__ / NNBase.__init__ has got
    self,    \* the attributes of the NNBase object
    err,     \* the exception that ended the constructor, if any
    run,     \* the training loop driving the fit target
    last     \* the last call on the object and what it returned

vars == <<args, hps, phase, self, err, run, last>>

\* an optional keyword argument: absent, or given with a value of S
Opt(S) == {[has |-> FALSE, v |-> x] : x \in {CHOOSE y \in S : TRUE}}
            \cup {[has |-> TRUE, v |-> x] : x \in S}

HpsInputs ==
    [mode : Opt(ModeInputs),
     output_dim : Opt(1..MaxDim),
     number_cat : Opt(1..MaxDim),
     compile : Opt({FALSE})]

\* ArchBase._proc_arg(name, default=...): self.hps.pop(name, default)
proc_arg(h, name, default) == IF h[name].has THEN h[name].v ELSE default
Popped(h, names) ==
    [k \in DOMAIN h |-> IF k \in names THEN [h[k] EXCEPT !.has = FALSE] ELSE h[k]]

NoModel == [output_dim |-> 0, compiled |-> FALSE]
NoDemixer == [output_dim |-> 0, number_cat |-> 0, alpha |-> RZero,
              raw_fractions |-> <<>>, callable_losses |-> 0, compiled |-> FALSE]
NoErr == [type |-> "none", text |-> "", cites |-> <<>>, valid |-> <<>>]
NoLoss == [coef |-> RZero, sum |-> EmptyBag]
NoRun == [pc |-> "idle", target |-> "none", forwards |-> 0, steps |-> 0,
          fwdRead |-> <<>>, lossRead |-> <<>>, terms |-> 0, loss |-> NoLoss]
NoLast == [op |-> "none", k |-> "none", v |-> "", text |-> "", props |-> {},
           raw |-> <<>>, inputs |-> <<>>, value |-> <<>>]

\* the object before ArchBase.__init__ has set anything: dict is the set of
\* the instance attributes that exist
NewSelf ==
    [dict |-> {}, mode |-> <<>>, output_dim |-> 0, number_cat |-> 0,
     demixer_output_dim |-> 0, alpha |-> RZero, compile |-> FALSE,
     _model |-> NoModel, _demixer |-> NoDemixer]

Init ==
    /\ args \in HpsInputs
    /\ hps = args
    /\ phase = "init"
    /\ self = NewSelf
    /\ err = NoErr
    /\ run = NoRun
    /\ last = NoLast

\* ----------------------------------------------------- NNBase._process_hps
DefaultAlpha == <<1, 10000>>

\* the validation of self.mode against allowed_modes
ModeAllowed_any(mode) == TRUE
ModeAllowed(mode) == mode \in allowed_modes

\* the inner model's output_dim after the demix adjustment
InnerOutputDim(mode, output_dim, number_cat) ==
    IF mode = demix THEN number_cat ELSE output_dim

ProcessHps ==
    /\ phase = "init"
    /\ LET output_dim == proc_arg(hps, "output_dim", DefaultOutputDim)
           number_cat == proc_arg(hps, "number_cat", output_dim)
           mode == Lower(proc_arg(hps, "mode", demix))
           s1 == [self EXCEPT
                    !.dict = @ \cup {"output_dim", "number_cat", "mode", "alpha",
                                     "compile"},
                    !.output_dim = output_dim,
                    !.number_cat = number_cat,
                    !.mode = mode,
                    !.alpha = DefaultAlpha,
                    !.compile = proc_arg(hps, "compile", TRUE)]
       IN  /\ hps' = Popped(hps, DOMAIN hps)
           /\ IF ~ModeAllowed(mode)
              THEN /\ self' = s1
                   /\ err' = [type |-> "ValueError", text |-> "Unrecognised mode",
                              cites |-> mode, valid |-> SortedAllowed]
                   /\ phase' = "failed"
              ELSE /\ self' = IF mode = demix
                              THEN [s1 EXCEPT
                                      !.dict = @ \cup {"demixer_output_dim"},
                                      !.demixer_output_dim = output_dim,
                                      !.output_dim =
                                          InnerOutputDim(mode, output_dim, number_cat)]
                              ELSE [s1 EXCEPT
                                      !.output_dim =
                                          InnerOutputDim(mode, output_dim, number_cat)]
                   /\ err' = err
                   /\ phase' = "hps_done"
    /\ UNCHANGED <<args, run, last>>

\* ------------------------------------------------ Python attribute lookup
\* The result of evaluating an attribute expression: a value (named by v), an
\* AttributeError with its message, or a RecursionError.  props collects the
\* property getters that ran.
Ok(v, props) == [k |-> "ok", v |-> v, text |-> "", props |-> props]
AttributeError(text, props) ==
    [k |-> "AttributeError", v |-> "", text |-> text, props |-> props]
RecursionError(props) ==
    [k |-> "RecursionError", v |-> "", text |-> "maximum recursion depth exceeded",
     props |-> props]

Properties == {"model", "demixer"}
Private(prop) == IF prop = "model" THEN "_model" ELSE "_demixer"
\* the attributes a tf_keras model answers to (the ones the model reads)
KerasAttrs == {"layers", "fit", "predict", "compile"}

RECURSIVE Lookup(_, _, _, _)
RECURSIVE PropertyGet(_, _, _, _)
RECURSIVE GetAttr(_, _, _, _)

\* hasattr(o, attr): only an AttributeError means "no"
HasAttr(r) == IF r.k = "ok" THEN TRUE ELSE FALSE

\* NNBase.model / NNBase.demixer (the property getters)
PropertyGet(o, prop, d, props) ==
    IF d > RecursionLimit THEN RecursionError(props \cup {prop})
    ELSE LET h == Lookup(o, Private(prop), d + 1, props \cup {prop})
         IN  IF h.k = "RecursionError" THEN h
             ELSE IF HasAttr(h) THEN Lookup(o, Private(prop), d + 1, h.props)
             ELSE AttributeError(
                     IF prop = "model" THEN "object has no underlying model"
                     ELSE "object has no underlying demixer", h.props)

\* ArchBase.__getattr__
GetAttr(o, attr, d, props) ==
    IF d > RecursionLimit THEN RecursionError(props)
    ELSE LET m == Lookup(o, "model", d + 1, props)
         IN  IF m.k # "ok" THEN m
             ELSE IF attr \in KerasAttrs THEN Ok(attr, m.props)
             ELSE AttributeError("object has no attribute, check of underlying model failed",
                                 m.props)

\* the expression o.attr: a property of the class first, then the instance
\* dictionary; an AttributeError of either falls through to __getattr__
Lookup(o, attr, d, props) ==
    IF attr \in Properties
    THEN LET r == PropertyGet(o, attr, d + 1, props)
         IN  IF r.k = "AttributeError" THEN GetAttr(o, attr, d + 1, r.props) ELSE r
    ELSE IF attr \in o.dict THEN Ok(attr, props)
    ELSE GetAttr(o, attr, d + 1, props)

\* ------------------------------------------------------- DeMixer.__init__
Numel(m) == Rows(m) * Cols(m)

\* Constant(value)(shape): the value itself when the shapes agree, a reshape
\* when the element counts agree, a fill when the value has one element, a
\* TypeError otherwise
ConstantInit(value, r, c) ==
    IF Rows(value) = r /\ Cols(value) = c THEN [ok |-> TRUE, m |-> value]
    ELSE IF Numel(value) = r * c
    THEN [ok |-> TRUE,
          m |-> Tensor([i \in 1..r |-> Tensor([j \in 1..c |->
                    LET n == (i - 1) * c + (j - 1)
                    IN  value[(n \div Cols(value)) + 1][(n % Cols(value)) + 1]], c)], r)]
    ELSE IF Numel(value) = 1
    THEN [ok |-> TRUE,
          m |-> Tensor([i \in 1..r |-> Tensor([j \in 1..c |-> value[1][1]], c)], r)]
    ELSE [ok |-> FALSE, m |-> <<>>]

\* the DeMixer as NNBase._construct_demixer builds it
NewDeMixer(output_dim, number_cat, alpha) ==
    LET w == ConstantInit(SliceCols(Eye(output_dim), number_cat),
                          output_dim, number_cat)
    IN  [ok |-> w.ok,
         d |-> [output_dim |-> output_dim, number_cat |-> number_cat,
                alpha |-> alpha, raw_fractions |-> w.m,
                callable_losses |-> 0, compiled |-> FALSE]]

\* the output_dim _construct_demixer passes to DeMixer
DemixerOutputDim_inner(o) == o.output_dim
DemixerOutputDim(o) == o.demixer_output_dim

\* --------------------------------------------------------- the constructor
\* _construct_model of the concrete architecture: builds and stores the inner
\* model, whose last layer has self.output_dim units
ConstructModel ==
    /\ phase = "hps_done"
    /\ self' = [self EXCEPT !.dict = @ \cup {"_model"},
                            !._model = [output_dim |-> self.output_dim,
                                        compiled |-> self.compile]]
    /\ phase' = "model_done"
    /\ UNCHANGED <<args, hps, err, run, last>>

\* whether NNBase.__init__ builds a DeMixer
WantsDemixer_always(o) == TRUE
WantsDemixer(o) == o.mode = demix

\* the rest of NNBase.__init__: _construct_demixer and _compile_demixer
FinishInit ==
    /\ phase = "model_done"
    /\ IF WantsDemixer(self)
       THEN LET arch == Lookup(self, "model", 0, {})
                dm == NewDeMixer(DemixerOutputDim(self), self.number_cat, self.alpha)
                s1 == [self EXCEPT !.dict = @ \cup {"_demixer"}, !._demixer = dm.d]
                c == Lookup(s1, "demixer", 0, {})
            IN  IF arch.k # "ok"
                THEN /\ err' = [NoErr EXCEPT !.type = arch.k, !.text = arch.text]
                     /\ self' = self
                     /\ phase' = "failed"
                ELSE IF ~dm.ok
                THEN /\ err' = [NoErr EXCEPT !.type = "TypeError",
                                             !.text = "unsupported shape"]
                     /\ self' = self
                     /\ phase' = "failed"
                ELSE IF ~self.compile
                THEN /\ err' = err /\ self' = s1 /\ phase' = "ready"
                ELSE IF c.k # "ok"
                THEN /\ err' = [NoErr EXCEPT !.type = c.k, !.text = c.text]
                     /\ self' = s1
                     /\ phase' = "failed"
                ELSE /\ err' = err
                     /\ self' = [s1 EXCEPT !._demixer.compiled = TRUE]
                     /\ phase' = "ready"
       ELSE /\ err' = err /\ self' = self /\ phase' = "ready"
    /\ UNCHANGED <<args, hps, run, last>>

\* ------------------------------------------------------------ accessors
\* obj.model, obj.demixer or a forwarded attribute, read by the hooks of the
\* constructor or by the caller afterwards
Access(attr) ==
    /\ phase # "failed"
    /\ run.pc = "idle"
    /\ LET r == Lookup(self, attr, 0, {})
       IN  last' = [NoLast EXCEPT !.op = attr, !.k = r.k, !.v = r.v,
                                  !.text = r.text, !.props = r.props]
    /\ UNCHANGED <<args, hps, phase, self, err, run>>

AccessModel == Access("model")
AccessDemixer == Access("demixer")
AccessForwarded == \E a \in {"layers", "history"} : Access(a)

\* ---------------------------------------------------------- DeMixer.call
\* what the inner model returns for one example: a vector of number_cat
\* entries, a probability distribution or not
Half == <<1, 2>>
Inputs(n) == {b \in [1..n -> {RZero, Half, ROne}] : RSum(b)[1] <= RSum(b)[2]}
IsDistribution(b) ==
    /\ \A j \in DOMAIN b : RNonNeg(b[j])
    /\ RSum(b) = ROne

\* a mutant: call writes the weight it has just read
call_reinit(dm) ==
    [dm EXCEPT !.callable_losses = @ + 1,
               !.raw_fractions =
                   Tensor([i \in 1..Rows(@) |->
                              Tensor([j \in 1..Cols(@) |-> 1 - @[i][j]], Cols(@))],
                          Rows(@))]

\* DeMixer.call, its effect on the layer: add_loss appends one deferred
\* callable; nothing else of the layer changes
call(dm) == [dm EXCEPT !.callable_losses = @ + 1]

\* a mutant: the product is taken with the raw weights
call_outputs_raw(dm, barycentric) ==
    Dot(barycentric, Transpose([i \in 1..Rows(dm.raw_fractions) |->
                                  [j \in 1..Cols(dm.raw_fractions) |->
                                      <<dm.raw_fractions[i][j], 1>>]]))

\* DeMixer.call, its result: the product of the inner model's output with the
\* vertices of the current raw_fractions
call_outputs(dm, barycentric) ==
    Dot(barycentric, to_vertices(dm.raw_fractions))

\* ------------------------------------------------------- fit and predict
\* the accessor fit and predict read to find their target
Target_model(o) == "model"
Target(o) == IF o.mode = demix THEN "demixer" ELSE "model"

\* the result of fit / predict finding its target through the accessor
Dispatch(op, r) ==
    [NoLast EXCEPT !.op = op, !.k = r.k, !.v = r.v, !.text = r.text,
                   !.props = r.props]

\* NNBase.fit up to the call of fitTarget.fit
FitBegin ==
    /\ phase = "ready"
    /\ run.pc = "idle"
    /\ LET r == Lookup(self, Target(self), 0, {})
       IN  /\ last' = Dispatch("fit", r)
           /\ run' = IF r.k = "ok"
                     THEN [run EXCEPT !.pc = "step_start", !.target = r.v]
                     ELSE run
    /\ UNCHANGED <<args, hps, phase, self, err>>

\* one forward invocation of the DeMixer inside a training step; the outputs
\* go to the loss function of the training loop
Forward ==
    /\ phase = "ready"
    /\ run.pc \in {"step_start", "forwarded"}
    /\ run.target = "_demixer"
    /\ self._demixer.callable_losses < MaxCalls
    /\ self' = [self EXCEPT !._demixer = call(self._demixer)]
    /\ run' = [run EXCEPT !.pc = "forwarded", !.forwards = @ + 1,
                          !.fwdRead = self._demixer.raw_fractions]
    /\ UNCHANGED <<args, hps, phase, err, last>>

\* the loss of the step: every callable the layer holds is evaluated, each
\* reading self.raw_fractions as it is now
EvalLosses ==
    /\ phase = "ready"
    /\ run.pc = "forwarded"
    /\ LET p == perimeterLoss(self._demixer.raw_fractions)
       IN  run' = [run EXCEPT !.pc = "loss_done",
                              !.terms = self._demixer.callable_losses,
                              !.lossRead = self._demixer.raw_fractions,
                              !.loss = [coef |-> RMul(self._demixer.alpha, p.coef),
                                        sum |-> p.sum]]
    /\ UNCHANGED <<args, hps, phase, self, err, last>>

\* the optimizer's update of the trainable weight, which ends the step: the
\* updates drawn are those that move one entry of the first row
ApplyGradients ==
    /\ phase = "ready"
    /\ run.pc = "loss_done"
    /\ run.steps < MaxSteps
    /\ \E j \in 1..Cols(self._demixer.raw_fractions), v \in RawVals :
         /\ v # self._demixer.raw_fractions[1][j]
         /\ self' = [self EXCEPT !._demixer.raw_fractions[1][j] = v]
    /\ run' = [NoRun EXCEPT !.pc = "step_start", !.target = run.target,
                            !.steps = run.steps + 1]
    /\ UNCHANGED <<args, hps, phase, err, last>>

\* fitTarget.fit returns and NNBase.fit with it
FitEnd ==
    /\ phase = "ready"
    /\ run.pc \in {"step_start", "loss_done"}
    /\ run' = [NoRun EXCEPT !.steps = run.steps]
    /\ UNCHANGED <<args, hps, phase, self, err, last>>

\* NNBase.predict
Predict ==
    /\ phase = "ready"
    /\ run.pc = "idle"
    /\ LET r == Lookup(self, Target(self), 0, {})
       IN  IF r.k = "ok" /\ r.v = "_demixer"
           THEN /\ self._demixer.callable_losses < MaxCalls
                /\ self' = [self EXCEPT !._demixer = call(self._demixer)]
                /\ \E b \in Inputs(self._model.output_dim) :
                     last' = [Dispatch("predict", r) EXCEPT
                                 !.raw = self._demixer.raw_fractions,
                                 !.inputs = b,
                                 !.value = call_outputs(self._demixer, b)]
           ELSE IF r.k = "ok"
           THEN /\ self' = self
                /\ \E b \in Inputs(self._model.output_dim) :
                     last' = [Dispatch("predict", r) EXCEPT
                                 !.inputs = b, !.value = b]
           ELSE /\ self' = self
                /\ last' = Dispatch("predict", r)
    /\ UNCHANGED <<args, hps, phase, err, run>>

\* --------------------------------------------------------- inspection
\* DeMixer.getFractions
GetFractions ==
    /\ phase = "ready"
    /\ run.pc = "idle"
    /\ "_demixer" \in self.dict
    /\ last' = [NoLast EXCEPT !.op = "getFractions", !.k = "ok",
                              !.raw = self._demixer.raw_fractions,
                              !.value = Softmax(self._demixer.raw_fractions)]
    /\ UNCHANGED <<args, hps, phase, self, err, run>>

\* a mutant: getVertices overwrites the weight it projects
GetVertices_inplace ==
    /\ phase = "ready"
    /\ run.pc = "idle"
    /\ "_demixer" \in self.dict
    /\ last' = [NoLast EXCEPT !.op = "getVertices", !.k = "ok",
                              !.raw = self._demixer.raw_fractions,
                              !.value = to_vertices(self._demixer.raw_fractions)]
    /\ self' = [self EXCEPT !._demixer.raw_fractions =
                    Tensor([i \in 1..Rows(@) |->
                               Tensor([j \in 1..Cols(@) |-> 1 - @[i][j]], Cols(@))],
                           Rows(@))]
    /\ UNCHANGED <<args, hps, phase, err, run>>

\* DeMixer.getVertices
GetVertices ==
    /\ phase = "ready"
    /\ run.pc = "idle"
    /\ "_demixer" \in self.dict
    /\ last' = [NoLast EXCEPT !.op = "getVertices", !.k = "ok",
                              !.raw = self._demixer.raw_fractions,
                              !.value = to_vertices(self._demixer.raw_fractions)]
    /\ UNCHANGED <<args, hps, phase, self, err, run>>

\* ------------------------------------------------------- specifications
Next ==
    \/ ProcessHps
    \/ ConstructModel
    \/ FinishInit
    \/ AccessModel
    \/ AccessDemixer
    \/ AccessForwarded
    \/ FitBegin
    \/ Forward
    \/ EvalLosses
    \/ ApplyGradients
    \/ FitEnd
    \/ Predict
    \/ GetFractions
    \/ GetVertices

Spec == Init /\ [][Next]_vars

\* A DeMixer whose weight holds any matrix of the bounded set (after training
\* or load_weights), on which the forward pass, the loss and the inspection
\* methods are applied.
PureInit ==
    \E od \in 1..MaxDim, nc \in 1..MaxDim :
      \E m \in Matrices(od, nc) :
        /\ args = [mode |-> [has |-> TRUE, v |-> demix],
                   output_dim |-> [has |-> TRUE, v |-> od],
                   number_cat |-> [has |-> TRUE, v |-> nc],
                   compile |-> [has |-> FALSE, v |-> FALSE]]
        /\ hps = Popped(args, DOMAIN args)
        /\ phase = "ready"
        /\ self = [dict |-> {"output_dim", "number_cat", "mode", "alpha", "compile",
                             "demixer_output_dim", "_model", "_demixer"},
                   mode |-> demix, output_dim |-> nc, number_cat |-> nc,
                   demixer_output_dim |-> od, alpha |-> DefaultAlpha,
                   compile |-> TRUE,
                   _model |-> [output_dim |-> nc, compiled |-> TRUE],
                   _demixer |-> [output_dim |-> od, number_cat |-> nc,
                                 alpha |-> DefaultAlpha, raw_fractions |-> m,
                                 callable_losses |-> 0, compiled |-> TRUE]]
        /\ err = NoErr
        /\ run = NoRun
        /\ last = NoLast

PureNext ==
    \/ FitBegin
    \/ Forward
    \/ EvalLosses
    \/ FitEnd
    \/ Predict
    \/ GetFractions
    \/ GetVertices

SpecPure == PureInit /\ [][PureNext]_vars

\* ------------------------------------------------------------ the claims
\* what the caller asked for
UserMode == proc_arg(args, "mode", demix)
UserOutputDim == proc_arg(args, "output_dim", DefaultOutputDim)
UserNumberCat == proc_arg(args, "number_cat", UserOutputDim)
Processed == phase # "init"

\* C1 as stated: a mode that is neither demix nor plain ends the constructor
\* in hyperparameter processing with an error that cites the value passed and
\* lists demix and plain, before an inner model or a DeMixer exists.
C1_ErrorCitesGivenMode ==
    (Processed /\ Lower(UserMode) \notin allowed_modes) =>
        /\ phase = "failed"
        /\ err.type = "ValueError"
        /\ err.cites = UserMode
        /\ err.valid = <<demix, plain>>
        /\ "_model" \notin self.dict
        /\ "_demixer" \notin self.dict

\* C1 amended: a mode whose lower-cased form is neither demix nor plain ends
\* the constructor in hyperparameter processing with an error that cites the
\* lower-cased value and lists demix and plain, before an inner model or a
\* DeMixer exists.
C1_ErrorCitesLoweredMode ==
    (Processed /\ Lower(UserMode) \notin allowed_modes) =>
        /\ phase = "failed"
        /\ err.type = "ValueError"
        /\ err.cites = Lower(UserMode)
        /\ err.valid = <<demix, plain>>
        /\ "_model" \notin self.dict
        /\ "_demixer" \notin self.dict

C1_Witness ==
    /\ phase = "failed"
    /\ err.type = "ValueError"
    /\ UserMode # Lower(UserMode)
    /\ args.number_cat.has

\* C2: a fit or predict on a constructed object goes to the DeMixer, without
\* reading the model accessor, when the configured mode lower-cases to demix,
\* and to the inner model, without reading the demixer accessor, when it
\* lower-cases to plain; the training loop of a fit runs on that same target.
C2_Delegation ==
    /\ (last.op \in {"fit", "predict"}) =>
          /\ last.k = "ok"
          /\ (Lower(UserMode) = demix) =>
                (last.v = "_demixer" /\ "model" \notin last.props)
          /\ (Lower(UserMode) = plain) =>
                (last.v = "_model" /\ "demixer" \notin last.props)
    /\ (run.pc # "idle") =>
          run.target = IF Lower(UserMode) = demix THEN "_demixer" ELSE "_model"

C2_Witness ==
    /\ last.op = "fit"
    /\ UserMode # demix
    /\ last.v = "_demixer"
    /\ run.pc = "forwarded"

\* C3: once constructed in demix mode the inner model's output width is
\* number_cat (the user's output_dim when number_cat was not given) and the
\* DeMixer has the user's output_dim and a weight of shape (user output_dim,
\* number_cat); in plain mode the inner model's width is the user's
\* output_dim whatever number_cat is.
C3_OutputDims ==
    (phase = "ready") =>
        IF self.mode = demix
        THEN /\ self.output_dim = UserNumberCat
             /\ self._demixer.output_dim = UserOutputDim
             /\ self._demixer.number_cat = UserNumberCat
             /\ Rows(self._demixer.raw_fractions) = UserOutputDim
             /\ \A i \in 1..UserOutputDim :
                    Len(self._demixer.raw_fractions[i]) = UserNumberCat
        ELSE self.output_dim = UserOutputDim

C3_Witness ==
    /\ phase = "ready"
    /\ self.mode = demix
    /\ args.number_cat.has
    /\ UserNumberCat < UserOutputDim

\* C4: from the end of construction on the mode keeps the value it was given
\* there, under every fit, predict and accessor call, and the object holds a
\* DeMixer exactly when that mode is demix.
C4_ModeFixed ==
    /\ [](phase = "ready" =>
            /\ self.mode = Lower(UserMode)
            /\ ("_demixer" \in self.dict) <=> (self.mode = demix))
    /\ [][phase = "ready" => (phase' = "ready" /\ self'.mode = self.mode
                              /\ self'.dict = self.dict)]_vars

C4_Witness ==
    /\ phase = "ready"
    /\ run.steps > 0
    /\ last.op = "model"
    /\ UserMode # demix

\* C5 as stated: reading the model or the demixer accessor while the
\* component does not exist ends in an AttributeError whose message names the
\* missing component.
C5_AccessorErrorNamesComponent ==
    /\ (last.op = "model" /\ "_model" \notin self.dict) =>
          (last.k = "AttributeError" /\ last.text = "object has no underlying model")
    /\ (last.op = "demixer" /\ "_demixer" \notin self.dict) =>
          (last.k = "AttributeError" /\ last.text = "object has no underlying demixer")

\* C6 as stated: the loss of a training step sums exactly one regularization
\* term, however many forward invocations the step made.
C6_OneTermPerStep ==
    (run.pc = "loss_done") => (run.terms = 1)

\* C7: every row of the matrix to_vertices returns has non-negative entries
\* that sum to 1, there is one row per category and one column per output,
\* and every divisor is strictly positive.
Divisors(raw) == Denominator(Transpose(Softmax(raw)))
PairTerm(v, i, j) ==
    Sqrt(SumSquares(Tensor([k \in 1..Cols(v) |-> RSub(v[i][k], v[j][k])], Cols(v))),
         Eps)
DiagTerm == Sqrt(EmptyBag, Eps)
UnorderedPairs(n) == {p \in (1..n) \X (1..n) : p[1] < p[2]}
ExpectedHalves(v) ==
    LET n == Rows(v)
        terms == {PairTerm(v, p[1], p[2]) : p \in UnorderedPairs(n)} \cup {DiagTerm}
    IN  [t \in terms |->
            2 * Cardinality({p \in UnorderedPairs(n) : PairTerm(v, p[1], p[2]) = t})
            + (IF t = DiagTerm THEN n ELSE 0)]
C9_Perimeter ==
    (run.pc = "loss_done") =>
        /\ run.loss.coef = RMul(self._demixer.alpha, Half)
        /\ run.loss.sum = ExpectedHalves(to_vertices(run.lossRead))

C9_Witness ==
    /\ run.pc = "loss_done"
    /\ Cols(run.lossRead) = 2
    /\ Cardinality(DOMAIN run.loss.sum) = 2

\* C10: in a training step the loss callables read the raw_fractions the
\* forward pass of that step read: no update falls between the two.
C10_SameRead ==
    (run.pc = "loss_done") => (run.lossRead = run.fwdRead)

C10_Witness ==
    /\ run.pc = "loss_done"
    /\ run.steps > 0
    /\ run.lossRead # Eye(Rows(run.lossRead))

\* C11: for every output_dim >= 1 and number_cat >= 1 the constructor creates
\* the DeMixer, and until the first gradient update its raw_fractions is the
\* output_dim x number_cat matrix with 1 at (i, i) and 0 elsewhere, also when
\* number_cat > output_dim.
IdentityCols(r, c) ==
    Tensor([i \in 1..r |-> Tensor([j \in 1..c |-> IF i = j THEN 1 ELSE 0], c)], r)

C11_InitialIdentity ==
    /\ (phase = "failed") => (err.type # "TypeError")
    /\ (phase = "ready" /\ "_demixer" \in self.dict /\ run.steps = 0) =>
           (self._demixer.raw_fractions =
                IdentityCols(self._demixer.output_dim, self._demixer.number_cat))

\* C12: raw_fractions of a constructed DeMixer changes only in the gradient
\* update that ends a training step; call, getFractions, getVertices and the
\* evaluation of the loss leave the layer's weight alone and store nothing
\* derived from it, and what getFractions / getVertices return is the softmax /
\* the vertices of the weight as it is now, so that projections with no update
\* between them agree whatever is called in between.
GradientUpdate ==
    /\ run.pc = "loss_done"
    /\ run'.steps = run.steps + 1

DerivedFree(dm) == [dm EXCEPT !.raw_fractions = <<>>, !.callable_losses = 0]

C12_Frame ==
    (phase = "ready" /\ "_demixer" \in self.dict) =>
        /\ (self'._demixer.raw_fractions # self._demixer.raw_fractions)
               => GradientUpdate
        /\ DerivedFree(self'._demixer) = DerivedFree(self._demixer)
        /\ (last' # last /\ last'.op \in {"getFractions", "getVertices", "predict"})
               => /\ last'.raw = self._demixer.raw_fractions
                  /\ self'._demixer.raw_fractions = self._demixer.raw_fractions

C12_Fresh ==
    /\ (last.op = "getFractions") =>
           (last.value = Softmax(self._demixer.raw_fractions))
    /\ (last.op = "getVertices") =>
           (last.value = to_vertices(self._demixer.raw_fractions))

=============================================================================
